---- MODULE Spec2Model ----
(***************************************************************************)
(* PKCEOAuthProxy (src/src/pkcehandler.ts): the transaction store, the     *)
(* token store, the durable token file, the expiry sweeper and the         *)
(* authorize / callback / token-exchange / validation handlers.            *)
(*                                                                         *)
(* Time is in milliseconds, as Date.now().  Identifiers produced by        *)
(* generateId() are the integers 1, 2, ... in order of generation (a       *)
(* 128-bit random value never repeats); upstream tokens are integers of a  *)
(* disjoint range.  0 stands for a value that is absent (undefined, null   *)
(* or the empty string: all are falsy in the code's tests).                *)
(***************************************************************************)
EXTENDS Bags, FiniteSets, Integers, Sequences, TLC

VARIABLES now, ticks, nextId, transactions, tokens, disk, cleanupInterval,
          pending, last, codeTx, tokenOf, doneTx

vars == <<now, ticks, nextId, transactions, tokens, disk, cleanupInterval,
          pending, last, codeTx, tokenOf, doneTx>>

----------------------------------------------------------------------------
(* Bounds of the model *)

MaxIds == 3
MaxTicks == 1

----------------------------------------------------------------------------
(* Program constants *)

TransactionTtlSeconds == 600
DefaultUpstreamLifetime == 3600
DefaultExpiresIn == 3600
MsPerSecond == 1000

Missing == 0
Bogus == -1

ConfigClientId == "upstream-client-id"
ConfigBaseUrl == "http://localhost:3000"
ConfigRedirectPath == "/oauth/callback"
ConfigAuthorizationEndpoint == "https://reflect.app/oauth"
ConfigTokenEndpoint == "https://reflect.app/api/oauth/token"
ConfigScopes == <<"read:graph", "write:graph">>

----------------------------------------------------------------------------
(* Inputs.  Next draws its inputs from these sets: redirect URIs that parse  *)
(* and writes of the token file that succeed.  The handlers below also cover *)
(* a redirect URI that does not parse (ValidUrl) and a write that fails      *)
(* (SaveTokensToDisk); a specification that draws those inputs passes them   *)
(* to the same actions.                                                      *)

Deltas == {1000, 600001}
ClientIds == {"abc"}
RedirectUris == {"https://client/cb"}
ResponseTypes == {"code", "token"}
ClientStates == {Missing, 301}
ScopeParams == {Missing}
UpstreamCodes == {Missing, 501}
UpstreamAccessTokens == {101}
UpstreamRefreshTokens == {201}
(* expires_in is optional in the upstream body: a body may lack the field,  *)
(* and a body that has it may carry any number, 0 included                  *)
UpstreamTokenBodies ==
  {[access_token |-> 101, refresh_token |-> 201, expires_in |-> 1],
   [access_token |-> 101, refresh_token |-> Missing],
   [access_token |-> 101, refresh_token |-> Missing, expires_in |-> 120],
   [access_token |-> 101, refresh_token |-> Missing, expires_in |-> 0]}
UpstreamErrorBodies == {601}
RefreshTokenInputs == UpstreamRefreshTokens \cup {Missing, Bogus}
WriteOutcomes == {"ok"}


----------------------------------------------------------------------------
(* Map helpers: a Map<string, V> is a function on the set of its keys *)

EmptyMap == [k \in {} |-> k]
Has(m, k) == k \in DOMAIN m
MapSet(m, k, v) == [x \in DOMAIN m \cup {k} |-> IF x = k THEN v ELSE m[x]]
MapDelete(m, k) == [x \in DOMAIN m \ {k} |-> m[x]]

----------------------------------------------------------------------------
(* URL parsing: new URL(s) throws on a string that is not an absolute URL *)

ValidUrl(s) == s \in {"https://client/cb", ConfigAuthorizationEndpoint}

(* PKCE: the verifier is random, the challenge is derived from it *)
GenerateVerifier(n) == <<"verifier", n>>
S256(verifier) == <<"S256", verifier>>
GeneratePKCE(n) == [verifier |-> GenerateVerifier(n),
                    challenge |-> S256(GenerateVerifier(n))]

(* scope: params.scope.split(" ") or the configured scopes *)
ScopeOf(scopeParam) == IF scopeParam = Missing THEN ConfigScopes ELSE <<scopeParam>>

----------------------------------------------------------------------------
(* Persistence *)

NoFile == [kind |-> "ENOENT", data |-> EmptyMap]
Truncated == [kind |-> "truncated", data |-> EmptyMap]
JsonFile(stored) == [kind |-> "json", data |-> stored]

ToISOStringWholeSeconds(ms) == <<"iso", (ms \div 1000) * 1000>>

ToISOString(ms) == <<"iso", ms>>
ParseDate(s) == s[2]

SerializeToken(value) ==
  IF value.refreshToken = Missing
    THEN [accessToken |-> value.accessToken,
          expiresAt |-> ToISOString(value.expiresAt)]
    ELSE [accessToken |-> value.accessToken,
          refreshToken |-> value.refreshToken,
          expiresAt |-> ToISOString(value.expiresAt)]

ToStore(tk) == [k \in DOMAIN tk |-> SerializeToken(tk[k])]

DeserializeToken(value) ==
  [accessToken |-> value.accessToken,
   refreshToken |-> IF "refreshToken" \in DOMAIN value THEN value.refreshToken ELSE Missing,
   expiresAt |-> ParseDate(value.expiresAt)]

LoadKeeps(value, t) == ParseDate(value.expiresAt) > t

LoadTokensFromDisk(file, t) ==
  IF file.kind # "json"
    THEN EmptyMap
    ELSE [k \in {x \in DOMAIN file.data : LoadKeeps(file.data[x], t)}
            |-> DeserializeToken(file.data[k])]

SaveTokensToDisk(tk, file, outcome) ==
  CASE outcome = "ok" -> JsonFile(ToStore(tk))
    [] outcome = "eacces" -> file
    [] OTHER -> Truncated

----------------------------------------------------------------------------
(* Expiry tests *)

TransactionExpiredInverted(tx, t) == tx.expiresAt > t

TransactionExpired(tx, t) == tx.expiresAt < t
TokenExpired(data, t) == data.expiresAt < t

----------------------------------------------------------------------------
(* Every handler is an operator from the state it reads and its inputs to   *)
(* its outcome: the value it returns or throws (result), the stores as it   *)
(* leaves them, and the number of saveTokensToDisk calls it makes (writes). *)
(* The action of the handler applies the outcome to the state.              *)

GeneratedIds == 1..(nextId - 1)
KeyInputs == GeneratedIds \cup {Missing, Bogus}

Idle == [op |-> "none", kind |-> "none"]

Init ==
  /\ now = 0
  /\ ticks = 0
  /\ nextId = 1
  /\ transactions = EmptyMap
  /\ disk = NoFile
  /\ tokens = LoadTokensFromDisk(NoFile, 0)
  /\ cleanupInterval = TRUE
  /\ pending = EmptyBag
  /\ last = Idle
  /\ codeTx = EmptyMap
  /\ tokenOf = EmptyMap
  /\ doneTx = {}

(* The clock advances between handlers *)
Tick ==
  /\ ticks < MaxTicks
  /\ \E d \in Deltas : now' = now + d
  /\ ticks' = ticks + 1
  /\ UNCHANGED <<nextId, transactions, tokens, disk, cleanupInterval,
                 pending, last, codeTx, tokenOf, doneTx>>

(* disk after a handler that made `writes` calls of saveTokensToDisk *)
DiskAfter(writes, tk, file, outcome) ==
  IF writes > 0 THEN SaveTokensToDisk(tk, file, outcome) ELSE file

----------------------------------------------------------------------------
(* authorize *)

NewTransactionTtlNotInMs(p, pkce, clientState, t) ==
  [codeVerifier |-> pkce.verifier,
   codeChallenge |-> pkce.challenge,
   clientCallbackUrl |-> p.redirect_uri,
   clientId |-> p.client_id,
   clientState |-> clientState,
   scope |-> ScopeOf(p.scope),
   createdAt |-> t,
   expiresAt |-> t + TransactionTtlSeconds]

NewTransaction(p, pkce, clientState, t) ==
  [codeVerifier |-> pkce.verifier,
   codeChallenge |-> pkce.challenge,
   clientCallbackUrl |-> p.redirect_uri,
   clientId |-> p.client_id,
   clientState |-> clientState,
   scope |-> ScopeOf(p.scope),
   createdAt |-> t,
   expiresAt |-> t + TransactionTtlSeconds * MsPerSecond]

AuthUrlPlainChallenge(transactionId, transaction, pkce) ==
  [endpoint |-> ConfigAuthorizationEndpoint,
   client_id |-> ConfigClientId,
   redirect_uri |-> ConfigBaseUrl \o ConfigRedirectPath,
   response_type |-> "code",
   scope |-> transaction.scope,
   state |-> transactionId,
   code_challenge |-> pkce.verifier,
   code_challenge_method |-> "plain"]

AuthUrl(transactionId, transaction, pkce) ==
  [endpoint |-> ConfigAuthorizationEndpoint,
   client_id |-> ConfigClientId,
   redirect_uri |-> ConfigBaseUrl \o ConfigRedirectPath,
   response_type |-> "code",
   scope |-> transaction.scope,
   state |-> transactionId,
   code_challenge |-> pkce.challenge,
   code_challenge_method |-> "S256"]

AuthorizeParams ==
  [client_id : ClientIds, redirect_uri : RedirectUris,
   response_type : ResponseTypes, state : ClientStates, scope : ScopeParams]

ResponseTypeSupportedAny(response_type) == TRUE

(* params.response_type !== "code" is refused *)
ResponseTypeSupported(response_type) == response_type = "code"

AuthorizeOp(p, txs, id, t) ==
  IF ~ResponseTypeSupported(p.response_type)
    THEN [result |-> [op |-> "authorize", kind |-> "response", status |-> 400,
                      error |-> "unsupported_response_type"],
          transactions |-> txs, nextId |-> id]
    ELSE LET transactionId == id
             generated == p.state = Missing
             clientState == IF generated THEN id + 1 ELSE p.state
             pkce == GeneratePKCE(transactionId)
             transaction == NewTransaction(p, pkce, clientState, t)
         IN [result |-> [op |-> "authorize", kind |-> "response", status |-> 302,
                         location |-> AuthUrl(transactionId, transaction, pkce)],
             transactions |-> MapSet(txs, transactionId, transaction),
             nextId |-> id + (IF generated THEN 2 ELSE 1)]

Authorize(p) ==
  LET r == AuthorizeOp(p, transactions, nextId, now)
  IN /\ r.nextId - 1 <= MaxIds
     /\ nextId' = r.nextId
     /\ transactions' = r.transactions
     /\ last' = r.result
     /\ UNCHANGED <<now, ticks, tokens, disk, cleanupInterval,
                    pending, codeTx, tokenOf, doneTx>>

----------------------------------------------------------------------------
(* handleCallback, up to the upstream request *)

TokenRequestAsRequester(code, transaction) ==
  [endpoint |-> ConfigTokenEndpoint,
   grant_type |-> "authorization_code",
   code |-> code,
   client_id |-> transaction.clientId,
   redirect_uri |-> transaction.clientCallbackUrl,
   code_verifier |-> transaction.codeVerifier]

TokenRequestStaleVerifier(code, transaction) ==
  [endpoint |-> ConfigTokenEndpoint,
   grant_type |-> "authorization_code",
   code |-> code,
   client_id |-> ConfigClientId,
   redirect_uri |-> ConfigBaseUrl \o ConfigRedirectPath,
   code_verifier |-> GenerateVerifier(0)]

TokenRequest(code, transaction) ==
  [endpoint |-> ConfigTokenEndpoint,
   grant_type |-> "authorization_code",
   code |-> code,
   client_id |-> ConfigClientId,
   redirect_uri |-> ConfigBaseUrl \o ConfigRedirectPath,
   code_verifier |-> transaction.codeVerifier]

CallbackError(error) ==
  [op |-> "callback", kind |-> "response", status |-> 400, error |-> error]

Invocation(code, state, txs) ==
  [state |-> state, code |-> code, transaction |-> txs[state]]

CallbackStartOpCodeFirst(code, state, txs, t) ==
  IF code = Missing
    THEN [result |-> CallbackError("missing_code"), transactions |-> txs]
  ELSE IF state = Missing
    THEN [result |-> CallbackError("missing_state"), transactions |-> txs]
  ELSE IF ~Has(txs, state)
    THEN [result |-> CallbackError("invalid_state"), transactions |-> txs]
  ELSE IF TransactionExpired(txs[state], t)
    THEN [result |-> CallbackError("transaction_expired"),
          transactions |-> MapDelete(txs, state)]
  ELSE [result |-> [op |-> "callback", kind |-> "await",
                    request |-> TokenRequest(code, txs[state])],
        transactions |-> txs]

CallbackStartOpUnknownAsExpired(code, state, txs, t) ==
  IF state = Missing
    THEN [result |-> CallbackError("missing_state"), transactions |-> txs]
  ELSE IF code = Missing
    THEN [result |-> CallbackError("missing_code"), transactions |-> txs]
  ELSE IF ~Has(txs, state) \/ TransactionExpired(txs[state], t)
    THEN [result |-> CallbackError("transaction_expired"),
          transactions |-> MapDelete(txs, state)]
  ELSE [result |-> [op |-> "callback", kind |-> "await",
                    request |-> TokenRequest(code, txs[state])],
        transactions |-> txs]

CallbackStartOp(code, state, txs, t) ==
  IF state = Missing
    THEN [result |-> CallbackError("missing_state"), transactions |-> txs]
  ELSE IF code = Missing
    THEN [result |-> CallbackError("missing_code"), transactions |-> txs]
  ELSE IF ~Has(txs, state)
    THEN [result |-> CallbackError("invalid_state"), transactions |-> txs]
  ELSE IF TransactionExpired(txs[state], t)
    THEN [result |-> CallbackError("transaction_expired"),
          transactions |-> MapDelete(txs, state)]
  ELSE [result |-> [op |-> "callback", kind |-> "await",
                    request |-> TokenRequest(code, txs[state])],
        transactions |-> txs]

CallbackStart(code, state) ==
  LET r == CallbackStartOp(code, state, transactions, now)
  IN /\ transactions' = r.transactions
     /\ last' = r.result
     /\ IF r.result.kind = "await"
          THEN /\ BagCardinality(pending) + nextId <= MaxIds
               /\ pending' = pending (+) SetToBag({Invocation(code, state, transactions)})
          ELSE UNCHANGED pending
     /\ UNCHANGED <<now, ticks, nextId, tokens, disk, cleanupInterval,
                    codeTx, tokenOf, doneTx>>

----------------------------------------------------------------------------
(* handleCallback, from the upstream response on *)

UpstreamResponses ==
  {[kind |-> "reject"]}
    \cup [kind : {"error"}, body : UpstreamErrorBodies]
    \cup {[kind |-> "ok"] @@ b : b \in UpstreamTokenBodies}

(* tokens.expires_in || 3600: undefined and 0 are both falsy *)
LifetimeSecondsAlwaysDefault(resp) == DefaultUpstreamLifetime

LifetimeSeconds(resp) ==
  IF "expires_in" \in DOMAIN resp /\ resp.expires_in # 0
    THEN resp.expires_in
    ELSE DefaultUpstreamLifetime

MintTokenData(resp, t) ==
  [accessToken |-> resp.access_token,
   refreshToken |-> resp.refresh_token,
   expiresAt |-> t + LifetimeSeconds(resp) * MsPerSecond]

ClientRedirectDropsState(transaction, proxyToken) ==
  [url |-> transaction.clientCallbackUrl,
   code |-> proxyToken,
   state |-> Missing]

ClientRedirect(transaction, proxyToken) ==
  [url |-> transaction.clientCallbackUrl,
   code |-> proxyToken,
   state |-> transaction.clientState]

(* this.transactions.delete(state) after the token is stored *)
CleanUpTransactionSkipped(txs, state) == txs

CleanUpTransaction(txs, state) == MapDelete(txs, state)

CallbackResumeOpDropsOnError(h, resp, txs, tk, id, t) ==
  CASE resp.kind = "reject" ->
         [result |-> [op |-> "callback", kind |-> "throw", error |-> "fetch failed"],
          transactions |-> txs, tokens |-> tk, writes |-> 0, nextId |-> id]
    [] resp.kind = "error" ->
         [result |-> [op |-> "callback", kind |-> "response", status |-> 400,
                      error |-> "token_exchange_failed", details |-> resp.body],
          transactions |-> MapDelete(txs, h.state), tokens |-> tk,
          writes |-> 0, nextId |-> id]
    [] OTHER ->
         LET proxyToken == id
             minted == MapSet(tk, proxyToken, MintTokenData(resp, t))
         IN IF ValidUrl(h.transaction.clientCallbackUrl)
              THEN [result |-> [op |-> "callback", kind |-> "response", status |-> 302,
                                location |-> ClientRedirect(h.transaction, proxyToken)],
                    transactions |-> CleanUpTransaction(txs, h.state),
                    tokens |-> minted, writes |-> 1, nextId |-> id + 1]
              ELSE [result |-> [op |-> "callback", kind |-> "throw",
                                error |-> "Invalid URL"],
                    transactions |-> txs,
                    tokens |-> minted, writes |-> 1, nextId |-> id + 1]

(* h is the suspended invocation: the state, the code and the transaction it
   read before the upstream request *)
CallbackResumeOp(h, resp, txs, tk, id, t) ==
  CASE resp.kind = "reject" ->
         [result |-> [op |-> "callback", kind |-> "throw", error |-> "fetch failed"],
          transactions |-> txs, tokens |-> tk, writes |-> 0, nextId |-> id]
    [] resp.kind = "error" ->
         [result |-> [op |-> "callback", kind |-> "response", status |-> 400,
                      error |-> "token_exchange_failed", details |-> resp.body],
          transactions |-> txs, tokens |-> tk, writes |-> 0, nextId |-> id]
    [] OTHER ->
         LET proxyToken == id
             minted == MapSet(tk, proxyToken, MintTokenData(resp, t))
         IN IF ValidUrl(h.transaction.clientCallbackUrl)
              THEN [result |-> [op |-> "callback", kind |-> "response", status |-> 302,
                                location |-> ClientRedirect(h.transaction, proxyToken)],
                    transactions |-> CleanUpTransaction(txs, h.state),
                    tokens |-> minted, writes |-> 1, nextId |-> id + 1]
              ELSE [result |-> [op |-> "callback", kind |-> "throw",
                                error |-> "Invalid URL"],
                    transactions |-> txs,
                    tokens |-> minted, writes |-> 1, nextId |-> id + 1]

CallbackResume(h, resp, outcome) ==
  LET r == CallbackResumeOp(h, resp, transactions, tokens, nextId, now)
      mintedNow == r.nextId # nextId
  IN /\ r.nextId - 1 <= MaxIds
     /\ pending' = pending (-) SetToBag({h})
     /\ nextId' = r.nextId
     /\ transactions' = r.transactions
     /\ tokens' = r.tokens
     /\ disk' = DiskAfter(r.writes, r.tokens, disk, outcome)
     /\ last' = r.result
     /\ codeTx' = IF mintedNow THEN MapSet(codeTx, nextId, h.state) ELSE codeTx
     /\ doneTx' = IF r.result.kind = "response" /\ r.result.status = 302
                    THEN doneTx \cup {h.state} ELSE doneTx
     /\ UNCHANGED <<now, ticks, cleanupInterval, tokenOf>>

----------------------------------------------------------------------------
(* exchangeAuthorizationCode *)

ExchangeStoreKeepsCode(tk, code, accessToken) ==
  MapSet(tk, accessToken, tk[code])

ExchangeStoreDropsRefresh(tk, code, accessToken) ==
  MapSet(MapDelete(tk, code), accessToken, [tk[code] EXCEPT !.refreshToken = Missing])

(* delete the code, insert the same record under the new key *)
ExchangeStore(tk, code, accessToken) ==
  MapSet(MapDelete(tk, code), accessToken, tk[code])

TokenResponseLeaksUpstream(accessToken, tokenData, t) ==
  LET expiresIn == (tokenData.expiresAt - t) \div MsPerSecond
  IN [access_token |-> tokenData.accessToken,
      token_type |-> "Bearer",
      expires_in |-> IF expiresIn > 0 THEN expiresIn ELSE DefaultExpiresIn]

TokenResponseNoClamp(accessToken, tokenData, t) ==
  [access_token |-> accessToken,
   token_type |-> "Bearer",
   expires_in |-> (tokenData.expiresAt - t) \div MsPerSecond]

TokenResponseWithRefresh(accessToken, tokenData, t) ==
  LET expiresIn == (tokenData.expiresAt - t) \div MsPerSecond
  IN IF tokenData.refreshToken = Missing
       THEN [access_token |-> accessToken,
             token_type |-> "Bearer",
             expires_in |-> IF expiresIn > 0 THEN expiresIn ELSE DefaultExpiresIn]
       ELSE [access_token |-> accessToken,
             token_type |-> "Bearer",
             expires_in |-> IF expiresIn > 0 THEN expiresIn ELSE DefaultExpiresIn,
             refresh_token |-> tokenData.refreshToken]

TokenResponse(accessToken, tokenData, t) ==
  LET expiresIn == (tokenData.expiresAt - t) \div MsPerSecond
  IN [access_token |-> accessToken,
      token_type |-> "Bearer",
      expires_in |-> IF expiresIn > 0 THEN expiresIn ELSE DefaultExpiresIn]

ExchangeThrow(error) == [op |-> "exchange", kind |-> "throw", error |-> error]

ExchangeOpWithoutSave(code, tk, id, t) ==
  IF code = Missing
    THEN [result |-> ExchangeThrow("invalid_request"),
          tokens |-> tk, writes |-> 0, nextId |-> id]
  ELSE IF ~Has(tk, code)
    THEN [result |-> ExchangeThrow("invalid_grant"),
          tokens |-> tk, writes |-> 0, nextId |-> id]
  ELSE [result |-> [op |-> "exchange", kind |-> "return",
                    response |-> TokenResponse(id, tk[code], t)],
        tokens |-> ExchangeStore(tk, code, id), writes |-> 0, nextId |-> id + 1]

ExchangeOpKeepsCode(code, tk, id, t) ==
  IF code = Missing
    THEN [result |-> ExchangeThrow("invalid_request"),
          tokens |-> tk, writes |-> 0, nextId |-> id]
  ELSE IF ~Has(tk, code)
    THEN [result |-> ExchangeThrow("invalid_grant"),
          tokens |-> tk, writes |-> 0, nextId |-> id]
  ELSE [result |-> [op |-> "exchange", kind |-> "return",
                    response |-> TokenResponse(id, tk[code], t)],
        tokens |-> MapSet(tk, id, tk[code]), writes |-> 1, nextId |-> id + 1]

ExchangeOp(code, tk, id, t) ==
  IF code = Missing
    THEN [result |-> ExchangeThrow("invalid_request"),
          tokens |-> tk, writes |-> 0, nextId |-> id]
  ELSE IF ~Has(tk, code)
    THEN [result |-> ExchangeThrow("invalid_grant"),
          tokens |-> tk, writes |-> 0, nextId |-> id]
  ELSE [result |-> [op |-> "exchange", kind |-> "return",
                    response |-> TokenResponse(id, tk[code], t)],
        tokens |-> ExchangeStore(tk, code, id), writes |-> 1, nextId |-> id + 1]

ExchangeAuthorizationCode(code, outcome) ==
  LET r == ExchangeOp(code, tokens, nextId, now)
  IN /\ r.nextId - 1 <= MaxIds
     /\ nextId' = r.nextId
     /\ tokens' = r.tokens
     /\ disk' = DiskAfter(r.writes, r.tokens, disk, outcome)
     /\ last' = r.result
     /\ tokenOf' = IF r.result.kind = "return" THEN MapSet(tokenOf, nextId, code) ELSE tokenOf
     /\ UNCHANGED <<now, ticks, transactions, cleanupInterval, pending, codeTx, doneTx>>

(* exchangeAuthorizationCode with the whole request: of grant_type, code,
   client_id, redirect_uri, code_verifier and client_secret the handler
   reads params.code only *)
ExchangeParams ==
  [code : KeyInputs,
   client_id : {"abc", "other"},
   redirect_uri : {"https://client/cb", "https://elsewhere/cb"},
   code_verifier : {GenerateVerifier(0), GenerateVerifier(1)},
   client_secret : {"", "s3cret"}]

ExchangeParamsOpChecksVerifier(params, tk, id, t) ==
  IF params.code_verifier = GenerateVerifier(0)
    THEN [result |-> ExchangeThrow("invalid_grant"),
          tokens |-> tk, writes |-> 0, nextId |-> id]
    ELSE ExchangeOp(params.code, tk, id, t)

ExchangeParamsOp(params, tk, id, t) ==
  ExchangeOp(params.code, tk, id, t)

(* the request is kept with the outcome *)
ExchangeAuthorizationCodeParams(params, outcome) ==
  LET r == ExchangeParamsOp(params, tokens, nextId, now)
  IN /\ r.nextId - 1 <= MaxIds
     /\ nextId' = r.nextId
     /\ tokens' = r.tokens
     /\ disk' = DiskAfter(r.writes, r.tokens, disk, outcome)
     /\ last' = r.result @@ [presented |-> params]
     /\ tokenOf' = IF r.result.kind = "return"
                     THEN MapSet(tokenOf, nextId, params.code) ELSE tokenOf
     /\ UNCHANGED <<now, ticks, transactions, cleanupInterval, pending, codeTx, doneTx>>

----------------------------------------------------------------------------
(* exchangeRefreshToken: throws before it reads its parameters or a store *)

ExchangeRefreshTokenOpHonoursStored(refresh_token, tk, id, t) ==
  LET holders == {k \in DOMAIN tk : tk[k].refreshToken = refresh_token}
  IN IF refresh_token # Missing /\ holders # {}
       THEN LET k == CHOOSE x \in holders : TRUE
            IN [result |-> [op |-> "refresh", kind |-> "return",
                            response |-> TokenResponse(id, tk[k], t)],
                tokens |-> MapSet(tk, id, tk[k]), writes |-> 1, nextId |-> id + 1]
       ELSE [result |-> [op |-> "refresh", kind |-> "throw", error |-> "invalid_grant"],
             tokens |-> tk, writes |-> 0, nextId |-> id]

ExchangeRefreshTokenOp(refresh_token, tk, id, t) ==
  [result |-> [op |-> "refresh", kind |-> "throw", error |-> "invalid_grant"],
   tokens |-> tk, writes |-> 0, nextId |-> id]

ExchangeRefreshToken(refresh_token, outcome) ==
  LET r == ExchangeRefreshTokenOp(refresh_token, tokens, nextId, now)
  IN /\ r.nextId - 1 <= MaxIds
     /\ nextId' = r.nextId
     /\ tokens' = r.tokens
     /\ disk' = DiskAfter(r.writes, r.tokens, disk, outcome)
     /\ last' = r.result
     /\ UNCHANGED <<now, ticks, transactions, cleanupInterval, pending,
                    codeTx, tokenOf, doneTx>>

----------------------------------------------------------------------------
(* loadUpstreamTokens, as called by authenticate *)

NotFound == [found |-> FALSE]
Found(data) == [found |-> TRUE, data |-> data]

LoadUpstreamTokensOpNoExpiryCheck(proxyToken, tk, t) ==
  IF ~Has(tk, proxyToken)
    THEN [ret |-> NotFound, tokens |-> tk, writes |-> 0]
    ELSE [ret |-> Found(tk[proxyToken]), tokens |-> tk, writes |-> 0]

LoadUpstreamTokensOp(proxyToken, tk, t) ==
  IF ~Has(tk, proxyToken)
    THEN [ret |-> NotFound, tokens |-> tk, writes |-> 0]
  ELSE IF TokenExpired(tk[proxyToken], t)
    THEN [ret |-> NotFound, tokens |-> MapDelete(tk, proxyToken), writes |-> 1]
  ELSE [ret |-> Found(tk[proxyToken]), tokens |-> tk, writes |-> 0]

LoadUpstreamTokens(proxyToken, outcome) ==
  LET r == LoadUpstreamTokensOp(proxyToken, tokens, now)
  IN /\ tokens' = r.tokens
     /\ disk' = DiskAfter(r.writes, r.tokens, disk, outcome)
     /\ last' = [op |-> "loadUpstreamTokens", kind |-> "return",
                 ret |-> r.ret, writes |-> r.writes]
     /\ UNCHANGED <<now, ticks, nextId, transactions, cleanupInterval, pending,
                    codeTx, tokenOf, doneTx>>

----------------------------------------------------------------------------
(* the cleanup interval's callback *)

SweepTransactionsKeepsAll(txs, t) == txs

SweepTransactions(txs, t) ==
  [id \in {x \in DOMAIN txs : ~TransactionExpired(txs[x], t)} |-> txs[id]]

SweepTokensKeepsAll(tk, t) == tk

SweepTokens(tk, t) ==
  [id \in {x \in DOMAIN tk : ~TokenExpired(tk[x], t)} |-> tk[id]]

SweepOpSavesOnAnyRemoval(txs, tk, t) ==
  [transactions |-> SweepTransactions(txs, t),
   tokens |-> SweepTokens(tk, t),
   writes |-> IF DOMAIN SweepTokens(tk, t) # DOMAIN tk
                   \/ DOMAIN SweepTransactions(txs, t) # DOMAIN txs
                THEN 1 ELSE 0]

SweepOp(txs, tk, t) ==
  [transactions |-> SweepTransactions(txs, t),
   tokens |-> SweepTokens(tk, t),
   writes |-> IF DOMAIN SweepTokens(tk, t) # DOMAIN tk THEN 1 ELSE 0]

Sweep(outcome) ==
  LET r == SweepOp(transactions, tokens, now)
  IN /\ cleanupInterval
     /\ transactions' = r.transactions
     /\ tokens' = r.tokens
     /\ disk' = DiskAfter(r.writes, r.tokens, disk, outcome)
     /\ last' = [op |-> "sweep", kind |-> "return", writes |-> r.writes]
     /\ UNCHANGED <<now, ticks, nextId, cleanupInterval, pending, codeTx, tokenOf, doneTx>>

(* getFirstValidToken: the first entry, in insertion order, whose expiresAt
   lies after now; keys are issued in increasing order *)
FirstValidAccepts(data, t) == data.expiresAt > t

GetFirstValidToken(tk, t) ==
  LET valid == {k \in DOMAIN tk : FirstValidAccepts(tk[k], t)}
  IN IF valid = {}
       THEN NotFound
       ELSE Found(tk[CHOOSE k \in valid : \A j \in valid : k <= j])

DestroyKeepsInterval(outcome) ==
  /\ cleanupInterval' = cleanupInterval
  /\ disk' = DiskAfter(1, tokens, disk, outcome)
  /\ last' = [op |-> "destroy", kind |-> "return", writes |-> 1]
  /\ UNCHANGED <<now, ticks, nextId, transactions, tokens, pending, codeTx, tokenOf, doneTx>>

(* destroy *)
Destroy(outcome) ==
  /\ cleanupInterval' = FALSE
  /\ disk' = DiskAfter(1, tokens, disk, outcome)
  /\ last' = [op |-> "destroy", kind |-> "return", writes |-> 1]
  /\ UNCHANGED <<now, ticks, nextId, transactions, tokens, pending, codeTx, tokenOf, doneTx>>

----------------------------------------------------------------------------
(* registerClient.  A request carries client_name and redirect_uris, each   *)
(* optional; an absent field is absent from the answer as well.             *)

RegistrationRequests ==
  {[f \in fs |-> IF f = "client_name" THEN "Reflect" ELSE <<"https://client/cb">>] :
     fs \in SUBSET {"client_name", "redirect_uris"}}

RegisterClientOpDropsUris(request, id) ==
  [result |-> [op |-> "register", kind |-> "return", client_id |-> id]
                @@ [f \in DOMAIN request \ {"redirect_uris"} |-> request[f]],
   nextId |-> id + 1]

RegisterClientOp(request, id) ==
  [result |-> [op |-> "register", kind |-> "return", client_id |-> id]
                @@ request,
   nextId |-> id + 1]

RegisterClient(request) ==
  LET r == RegisterClientOp(request, nextId)
  IN /\ r.nextId - 1 <= MaxIds
     /\ nextId' = r.nextId
     /\ last' = r.result
     /\ UNCHANGED <<now, ticks, transactions, tokens, disk, cleanupInterval,
                    pending, codeTx, tokenOf, doneTx>>

----------------------------------------------------------------------------
(* console output.  The values a handler writes to the log in full, as a    *)
(* function of what the handler was given and what it answered; a key cut   *)
(* to its first 8 characters (slice(0, 8)) is not in the set.               *)

(* authorize, handleCallback: lines 196, 208, 223, 243, 275, 306 *)
LoggedInFull(result) ==
  IF result.op = "authorize" /\ result.kind = "response" /\ result.status = 302
    THEN {result.location.state}
  ELSE IF result.op = "callback" /\ result.kind = "response" /\ result.status = 302
    THEN {result.location.code, result.location.state}
  ELSE IF result.op = "callback" /\ result.kind = "response"
            /\ result.error = "token_exchange_failed"
    THEN {result.details}
  ELSE {}

(* exchangeAuthorizationCode: line 329 logs a prefix of the code, line 337
   the whole code when it is not a key, line 338 prefixes of the keys *)
ExchangeLoggedInFull(code, tk) ==
  IF code # Missing /\ ~Has(tk, code) THEN {code} ELSE {}

----------------------------------------------------------------------------
Next ==
  \/ Tick
  \/ \E p \in AuthorizeParams : Authorize(p)
  \/ \E code \in UpstreamCodes, state \in KeyInputs : CallbackStart(code, state)
  \/ \E h \in BagToSet(pending), resp \in UpstreamResponses, outcome \in WriteOutcomes :
       CallbackResume(h, resp, outcome)
  \/ \E code \in KeyInputs, outcome \in WriteOutcomes :
       ExchangeAuthorizationCode(code, outcome)
  \/ \E refresh_token \in RefreshTokenInputs, outcome \in WriteOutcomes :
       ExchangeRefreshToken(refresh_token, outcome)
  \/ \E proxyToken \in KeyInputs, outcome \in WriteOutcomes :
       LoadUpstreamTokens(proxyToken, outcome)
  \/ \E outcome \in WriteOutcomes : Sweep(outcome)
  \/ \E outcome \in WriteOutcomes : Destroy(outcome)

Spec == Init /\ [][Next]_vars

----------------------------------------------------------------------------
(* The process stops and a new proxy is constructed on the same token file: *)
(* the constructor loads the file and starts the cleanup interval; the      *)
(* transactions, the suspended callbacks and the old token map are gone.    *)

Restart ==
  /\ transactions' = EmptyMap
  /\ tokens' = LoadTokensFromDisk(disk, now)
  /\ cleanupInterval' = TRUE
  /\ pending' = EmptyBag
  /\ last' = [op |-> "restart", kind |-> "return"]
  /\ UNCHANGED <<now, ticks, nextId, disk, codeTx, tokenOf, doneTx>>

(* Writes of the token file that fail: before the file is opened (eacces),  *)
(* or after writeFileSync has truncated it (enospc)                         *)
FaultOutcomes == {"ok", "eacces", "enospc"}

FaultAuthorizeParams ==
  {p \in AuthorizeParams : p.response_type = "code" /\ p.state # Missing}

FaultResponses ==
  {r \in UpstreamResponses :
     r.kind = "ok" /\ "expires_in" \in DOMAIN r /\ r.expires_in > 1}

NextFaults ==
  \/ Tick
  \/ \E p \in FaultAuthorizeParams : Authorize(p)
  \/ \E code \in UpstreamCodes \ {Missing}, state \in DOMAIN transactions :
       CallbackStart(code, state)
  \/ \E h \in BagToSet(pending), resp \in FaultResponses, outcome \in FaultOutcomes :
       CallbackResume(h, resp, outcome)
  \/ \E code \in DOMAIN tokens, outcome \in FaultOutcomes :
       ExchangeAuthorizationCode(code, outcome)
  \/ \E proxyToken \in DOMAIN tokens, outcome \in FaultOutcomes :
       LoadUpstreamTokens(proxyToken, outcome)
  \/ \E outcome \in FaultOutcomes : Sweep(outcome)
  \/ \E outcome \in FaultOutcomes : Destroy(outcome)
  \/ Restart

SpecFaults == Init /\ [][NextFaults]_vars

----------------------------------------------------------------------------
(* A proxy that has minted and saved the records of any store over two     *)
(* keys, followed by the handlers that save and load without a request     *)
(* from a client.                                                           *)

RoundTripKeys == 1..2
RoundTripExpiries == {1000, 600001, 3600000}
RoundTripRecords ==
  [accessToken : UpstreamAccessTokens,
   refreshToken : UpstreamRefreshTokens \cup {Missing},
   expiresAt : RoundTripExpiries]
RoundTripStores == UNION {[ks -> RoundTripRecords] : ks \in SUBSET RoundTripKeys}

InitRoundTrip ==
  /\ now = 0
  /\ ticks = 0
  /\ nextId = Cardinality(RoundTripKeys) + 1
  /\ transactions = EmptyMap
  /\ \E st \in RoundTripStores :
       /\ tokens = st
       /\ disk = SaveTokensToDisk(st, NoFile, "ok")
  /\ cleanupInterval = TRUE
  /\ pending = EmptyBag
  /\ last = Idle
  /\ codeTx = EmptyMap
  /\ tokenOf = EmptyMap
  /\ doneTx = {}

NextRoundTrip ==
  \/ Tick
  \/ \E outcome \in WriteOutcomes : Sweep(outcome)
  \/ \E outcome \in WriteOutcomes : Destroy(outcome)
  \/ Restart

SpecRoundTrip == InitRoundTrip /\ [][NextRoundTrip]_vars

----------------------------------------------------------------------------
(* Properties *)

(* the access tokens a successful exchange of code c has returned *)
ExchangesOf(c) == {a \in DOMAIN tokenOf : tokenOf[a] = c}
(* the proxy codes minted for transaction id t *)
CodesOf(t) == {c \in DOMAIN codeTx : codeTx[c] = t}
(* every upstream credential the upstream may hand to the proxy *)
UpstreamSecrets == UpstreamAccessTokens \cup UpstreamRefreshTokens

LastIs(op, kind) == last.op = op /\ last.kind = kind

(* C1: a proxy code minted by handleCallback is exchanged successfully at most
   once: the successful exchange removes the code key, and from then on every
   exchangeAuthorizationCode call with that code throws invalid_grant. *)
C1_CodeExchangedAtMostOnce ==
  \A c \in DOMAIN codeTx :
    /\ Cardinality(ExchangesOf(c)) <= 1
    /\ ExchangesOf(c) # {} =>
         /\ ~Has(tokens, c)
         /\ ExchangeOp(c, tokens, nextId, now).result = ExchangeThrow("invalid_grant")
         /\ ExchangeOp(c, tokens, nextId, now).tokens = tokens

C1_Witness ==
  /\ \E c \in DOMAIN codeTx : ExchangesOf(c) # {}
  /\ LastIs("exchange", "throw")
  /\ last.error = "invalid_grant"

(* C2: right after a successful authorize the transaction it created is in
   the transaction store; once a callback carrying its id as state has
   completed with the redirect, the transaction is gone and every later
   callback with that state (and a code) returns invalid_state, touches no
   store and does not reach the upstream exchange. *)
C2_TransactionConsumedByCallback ==
  /\ (LastIs("authorize", "response") /\ last.status = 302)
       => Has(transactions, last.location.state)
  /\ \A t \in doneTx :
       /\ ~Has(transactions, t)
       /\ \A code \in UpstreamCodes \ {Missing} :
            /\ CallbackStartOp(code, t, transactions, now).result
                 = CallbackError("invalid_state")
            /\ CallbackStartOp(code, t, transactions, now).transactions = transactions

C2_Witness ==
  /\ doneTx # {}
  /\ LastIs("callback", "response")
  /\ last.status = 400
  /\ last.error = "invalid_state"

(* C3: at most one proxy code is ever minted per transaction id, in every
   interleaving of handlers. *)
C3_OneCodePerTransaction ==
  \A t \in GeneratedIds : Cardinality(CodesOf(t)) <= 1

(* C4: a handleCallback invocation that resumes from the upstream request when
   the transaction it read is no longer in the store, or has passed its
   expiresAt, stores no token record and sends no redirect with a proxy code. *)
C4_ResumeRevalidatesTransaction ==
  [][\A h \in BagToSet(pending) :
       ( /\ pending' = pending (-) SetToBag({h})
         /\ \/ ~Has(transactions, h.state)
            \/ h.transaction.expiresAt < now )
       => /\ tokens' = tokens
          /\ ~(last'.kind = "response" /\ last'.status = 302)]_vars

(* C5: exchangeAuthorizationCode with a proxy code whose record's expiresAt
   has passed throws invalid_grant and mints no access token, also while the
   sweeper has not removed the entry yet. *)
C5_ExpiredCodeRejected ==
  [][\A c \in DOMAIN codeTx :
       ( /\ Has(tokens, c)
         /\ tokens[c].expiresAt < now
         /\ ExchangeAuthorizationCode(c, "ok") )
       => /\ last' = ExchangeThrow("invalid_grant")
          /\ tokenOf' = tokenOf]_vars

(* C6: loadUpstreamTokens(k) never returns a record whose expiresAt has
   passed.  k absent: null, nothing changes.  k present and expired: k is
   removed (every other entry kept), the token store is saved, null is
   returned.  Otherwise the stored record is returned and nothing changes. *)
C6_LoadUpstreamTokens ==
  [][\A k \in KeyInputs :
       (last'.op = "loadUpstreamTokens" /\ LoadUpstreamTokens(k, "ok")) =>
         /\ transactions' = transactions
         /\ last'.ret.found => ~(last'.ret.data.expiresAt < now)
         /\ IF k \notin DOMAIN tokens
              THEN /\ last'.ret = NotFound
                   /\ tokens' = tokens
                   /\ disk' = disk
            ELSE IF tokens[k].expiresAt < now
              THEN /\ last'.ret = NotFound
                   /\ DOMAIN tokens' = DOMAIN tokens \ {k}
                   /\ \A j \in DOMAIN tokens' : tokens'[j] = tokens[j]
                   /\ disk' = JsonFile(ToStore(tokens'))
            ELSE /\ last'.ret = Found(tokens[k])
                 /\ tokens' = tokens
                 /\ disk' = disk]_vars

C6_Witness ==
  /\ LastIs("loadUpstreamTokens", "return")
  /\ ~last.ret.found
  /\ last.writes = 1
  /\ disk = JsonFile(ToStore(tokens))

(* C7: no response toward the original client (the authorize redirect, the
   callback redirect, an error response, the token-exchange response) carries
   an upstream access or refresh token; the code and the access token the
   client receives are identifiers minted by the proxy. *)
C7_NoUpstreamTokenToClient ==
  /\ (LastIs("authorize", "response") /\ last.status = 302)
       => last.location.state \in GeneratedIds
  /\ (LastIs("callback", "response") /\ last.status = 302)
       => /\ last.location.code \in GeneratedIds
          /\ last.location.code \notin UpstreamSecrets
          /\ last.location.state \notin UpstreamSecrets
  /\ (LastIs("callback", "response") /\ last.status = 400
        /\ last.error = "token_exchange_failed")
       => last.details \notin UpstreamSecrets
  /\ LastIs("exchange", "return")
       => /\ last.response.access_token \in GeneratedIds
          /\ last.response.access_token \notin UpstreamSecrets
          /\ \A f \in DOMAIN last.response \ {"token_type"} :
               last.response[f] \notin UpstreamSecrets

C7_Witness ==
  /\ LastIs("exchange", "return")
  /\ Has(tokens, last.response.access_token)
  /\ tokens[last.response.access_token].accessToken \in UpstreamAccessTokens
  /\ tokens[last.response.access_token].refreshToken \in UpstreamRefreshTokens

(* C8: a successful exchangeAuthorizationCode rotates the key and keeps the
   record: the code key is gone, exactly one new key, different from the
   code, is present and maps to the record the code had, every other entry
   is unchanged, and the size of the token store is unchanged. *)
C8_ExchangeRotatesKey ==
  [][\A code \in KeyInputs :
       ( /\ last'.op = "exchange"
         /\ last'.kind = "return"
         /\ ExchangeAuthorizationCode(code, "ok") ) =>
         /\ Has(tokens, code)
         /\ ~Has(tokens', code)
         /\ Cardinality(DOMAIN tokens' \ DOMAIN tokens) = 1
         /\ \A a \in DOMAIN tokens' \ DOMAIN tokens :
              /\ a # code
              /\ a = last'.response.access_token
              /\ tokens'[a].accessToken = tokens[code].accessToken
              /\ tokens'[a].refreshToken = tokens[code].refreshToken
              /\ tokens'[a].expiresAt = tokens[code].expiresAt
         /\ \A k \in DOMAIN tokens \ {code} : Has(tokens', k) /\ tokens'[k] = tokens[k]
         /\ Cardinality(DOMAIN tokens') = Cardinality(DOMAIN tokens)]_vars

C8_Witness ==
  /\ LastIs("exchange", "return")
  /\ Has(tokens, last.response.access_token)
  /\ tokens[last.response.access_token].refreshToken # Missing
  /\ ~Has(tokens, tokenOf[last.response.access_token])

(* C9: the expires_in of a successful exchangeAuthorizationCode is positive:
   floor((expiresAt - now) / 1000) when that is positive, 3600 otherwise. *)
C9_ExpiresInPositive ==
  /\ LastIs("exchange", "return") => last.response.expires_in > 0
  /\ \A c \in DOMAIN tokens :
       LET r == ExchangeOp(c, tokens, nextId, now).result
           seconds == (tokens[c].expiresAt - now) \div 1000
       IN /\ r.kind = "return"
          /\ r.response.expires_in > 0
          /\ r.response.expires_in = IF seconds > 0 THEN seconds ELSE 3600

C9_Witness ==
  /\ LastIs("exchange", "return")
  /\ last.response.expires_in = 3600
  /\ Has(tokens, last.response.access_token)
  /\ tokens[last.response.access_token].expiresAt <= now

(* C10: the token-exchange response has no refresh_token field, also when the
   stored record holds an upstream refresh token. *)
C10_NoRefreshTokenInResponse ==
  /\ LastIs("exchange", "return") => "refresh_token" \notin DOMAIN last.response
  /\ \A c \in DOMAIN tokens :
       "refresh_token" \notin DOMAIN ExchangeOp(c, tokens, nextId, now).result.response

C10_Witness ==
  /\ LastIs("exchange", "return")
  /\ Has(tokens, last.response.access_token)
  /\ tokens[last.response.access_token].refreshToken = 201

(* C11: exchangeRefreshToken throws invalid_grant for every refresh_token
   value (the empty string, a value no record holds, the refreshToken of a
   stored unexpired record) in every reachable state, and the step leaves the
   transaction store, the token store and the token file as they were. *)
C11_RefreshAlwaysInvalidGrant ==
  /\ [](\A rt \in RefreshTokenInputs :
          LET r == ExchangeRefreshTokenOp(rt, tokens, nextId, now)
          IN /\ r.result.kind = "throw"
             /\ r.result.error = "invalid_grant"
             /\ r.tokens = tokens
             /\ r.writes = 0
             /\ r.nextId = nextId)
  /\ [][last'.op = "refresh" =>
          /\ last'.kind = "throw"
          /\ last'.error = "invalid_grant"
          /\ transactions' = transactions
          /\ tokens' = tokens
          /\ disk' = disk]_vars

C11_Witness ==
  /\ LastIs("refresh", "throw")
  /\ last.error = "invalid_grant"
  /\ transactions # EmptyMap
  /\ \E k \in DOMAIN tokens :
       /\ tokens[k].refreshToken \in RefreshTokenInputs \ {Missing}
       /\ tokens[k].expiresAt > now

(* C12: authorize with a response_type other than "code" answers 400
   unsupported_response_type, creates no transaction (and consumes no id),
   and leaves the transaction store, the token store and the token file
   unchanged. *)
C12_UnsupportedResponseType ==
  /\ [](\A p \in AuthorizeParams :
          p.response_type # "code" =>
            LET r == AuthorizeOp(p, transactions, nextId, now)
            IN /\ r.result.kind = "response"
               /\ r.result.status = 400
               /\ r.result.error = "unsupported_response_type"
               /\ r.transactions = transactions
               /\ r.nextId = nextId)
  /\ [][(last'.op = "authorize" /\ last'.status = 400) =>
          /\ last'.error = "unsupported_response_type"
          /\ transactions' = transactions
          /\ tokens' = tokens
          /\ disk' = disk
          /\ nextId' = nextId]_vars

C12_Witness ==
  /\ LastIs("authorize", "response")
  /\ last.status = 400
  /\ last.error = "unsupported_response_type"
  /\ transactions # EmptyMap
  /\ tokens # EmptyMap

(* C13: a successful authorize adds exactly one transaction and changes no
   other; its key is a fresh id (never generated before), it was created now
   and expires 10 minutes later, and the state parameter of the upstream
   redirect is that key, so the state looks up the transaction just made. *)
C13_AuthorizeAddsOneTransaction ==
  [][(last'.op = "authorize" /\ last'.status = 302 /\ nextId' # nextId) =>
       /\ Cardinality(DOMAIN transactions' \ DOMAIN transactions) = 1
       /\ \A k \in DOMAIN transactions :
            Has(transactions', k) /\ transactions'[k] = transactions[k]
       /\ \A id \in DOMAIN transactions' \ DOMAIN transactions :
            /\ id \notin GeneratedIds
            /\ id \notin DOMAIN tokens
            /\ transactions'[id].createdAt = now
            /\ transactions'[id].expiresAt = transactions'[id].createdAt + 10 * 60 * 1000
            /\ last'.location.state = id
       /\ Has(transactions', last'.location.state)
       /\ tokens' = tokens
       /\ disk' = disk]_vars

C13_Witness ==
  /\ LastIs("authorize", "response")
  /\ last.status = 302
  /\ Has(transactions, last.location.state)
  /\ transactions[last.location.state].createdAt = now
  /\ transactions[last.location.state].expiresAt = now + 600000
  /\ Cardinality(DOMAIN transactions) >= 2

(* C14: the authorize redirect and the upstream token request of a callback
   carry the configured upstream client id and the callback URL
   baseUrl + redirectPath, never the client_id or the redirect_uri the
   requester supplied; the token request has no client secret. *)
C14_UpstreamIdentityIsTheProxys ==
  /\ (LastIs("authorize", "response") /\ last.status = 302) =>
       /\ last.location.client_id = ConfigClientId
       /\ last.location.redirect_uri = ConfigBaseUrl \o ConfigRedirectPath
       /\ last.location.client_id \notin ClientIds
       /\ last.location.redirect_uri \notin RedirectUris
       /\ last.location.client_id # transactions[last.location.state].clientId
       /\ last.location.redirect_uri # transactions[last.location.state].clientCallbackUrl
  /\ LastIs("callback", "await") =>
       /\ last.request.client_id = ConfigClientId
       /\ last.request.redirect_uri = ConfigBaseUrl \o ConfigRedirectPath
       /\ last.request.client_id \notin ClientIds
       /\ last.request.redirect_uri \notin RedirectUris
       /\ "client_secret" \notin DOMAIN last.request
  /\ \A code \in UpstreamCodes, state \in DOMAIN transactions :
       LET r == CallbackStartOp(code, state, transactions, now).result
       IN r.kind = "await" =>
            /\ r.request.client_id = ConfigClientId
            /\ r.request.client_id # transactions[state].clientId
            /\ r.request.redirect_uri = ConfigBaseUrl \o ConfigRedirectPath
            /\ r.request.redirect_uri # transactions[state].clientCallbackUrl
            /\ DOMAIN r.request = {"endpoint", "grant_type", "code", "client_id",
                                   "redirect_uri", "code_verifier"}

C14_Witness ==
  /\ LastIs("callback", "await")
  /\ \E h \in BagToSet(pending) :
       /\ h.transaction.clientId \in ClientIds
       /\ h.transaction.clientCallbackUrl \in RedirectUris
       /\ last.request.code_verifier = h.transaction.codeVerifier

(* every code verifier generated so far *)
AllVerifiers == {GenerateVerifier(n) : n \in GeneratedIds}

(* C15: a code verifier is in no authorize redirect, in no redirect or
   response sent to the client and not in the token file.  The authorize
   redirect carries the S256 challenge derived from the verifier of the
   transaction it created; the upstream token request of a callback carries
   the verifier of the transaction its state names and of no other. *)
C15_VerifierStaysInside ==
  /\ (LastIs("authorize", "response") /\ last.status = 302) =>
       /\ DOMAIN last.location =
            {"endpoint", "client_id", "redirect_uri", "response_type", "scope",
             "state", "code_challenge", "code_challenge_method"}
       /\ last.location.code_challenge_method = "S256"
       /\ last.location.code_challenge
            = S256(transactions[last.location.state].codeVerifier)
       /\ last.location.code_challenge \notin AllVerifiers
  /\ (LastIs("callback", "response") /\ last.status = 302) =>
       /\ DOMAIN last.location = {"url", "code", "state"}
       /\ last.location.code \in GeneratedIds
       /\ last.location.state \in GeneratedIds \cup ClientStates
  /\ (LastIs("callback", "response") /\ last.status = 400) =>
       DOMAIN last \subseteq {"op", "kind", "status", "error", "details"}
  /\ LastIs("exchange", "return") =>
       DOMAIN last.response = {"access_token", "token_type", "expires_in"}
  /\ \A k \in DOMAIN disk.data :
       /\ k \in GeneratedIds
       /\ DOMAIN disk.data[k] \subseteq {"accessToken", "refreshToken", "expiresAt"}
       /\ disk.data[k].accessToken \in UpstreamAccessTokens
       /\ "refreshToken" \in DOMAIN disk.data[k]
            => disk.data[k].refreshToken \in UpstreamRefreshTokens
       /\ disk.data[k].expiresAt = ToISOString(ParseDate(disk.data[k].expiresAt))
  /\ \A code \in UpstreamCodes, state \in DOMAIN transactions :
       LET r == CallbackStartOp(code, state, transactions, now).result
       IN r.kind = "await" =>
            /\ r.request.code_verifier = transactions[state].codeVerifier
            /\ S256(r.request.code_verifier) = transactions[state].codeChallenge
            /\ \A other \in DOMAIN transactions \ {state} :
                 r.request.code_verifier # transactions[other].codeVerifier
  /\ LastIs("callback", "await") =>
       \E h \in BagToSet(pending) :
         /\ last.request.code = h.code
         /\ last.request.code_verifier = h.transaction.codeVerifier
         /\ h.transaction.codeVerifier = GenerateVerifier(h.state)

C15_Witness ==
  /\ LastIs("authorize", "response")
  /\ last.status = 302
  /\ pending # EmptyBag
  /\ Cardinality(DOMAIN transactions) >= 2

(* C16: handleCallback with the state or the code missing answers 400:
   missing_state when the state is missing (also when the code is missing
   too), missing_code otherwise.  It makes no upstream request and leaves the
   transaction store and the token store unchanged. *)
C16_MissingCodeOrState ==
  /\ [](\A code \in UpstreamCodes, state \in KeyInputs :
          (state = Missing \/ code = Missing) =>
            LET r == CallbackStartOp(code, state, transactions, now)
            IN /\ r.result.kind = "response"
               /\ r.result.status = 400
               /\ r.result.error =
                    IF state = Missing THEN "missing_state" ELSE "missing_code"
               /\ r.transactions = transactions)
  /\ [][(/\ last'.op = "callback"
          /\ last'.kind = "response"
          /\ last'.status = 400
          /\ last'.error \in {"missing_state", "missing_code"}) =>
          /\ transactions' = transactions
          /\ tokens' = tokens
          /\ disk' = disk
          /\ pending' = pending
          /\ nextId' = nextId]_vars

C16_Witness ==
  /\ LastIs("callback", "response")
  /\ last.status = 400
  /\ last.error = "missing_state"
  /\ transactions # EmptyMap
  /\ tokens # EmptyMap

(* C17: handleCallback carrying a code and a state that is not a key of the
   transaction store (a value never issued, a proxy code, the id of a
   transaction already consumed or swept) answers 400 invalid_state, makes no
   upstream request and leaves both stores unchanged. *)
C17_UnknownStateRejected ==
  /\ [](\A code \in UpstreamCodes \ {Missing}, state \in KeyInputs \ {Missing} :
          state \notin DOMAIN transactions =>
            LET r == CallbackStartOp(code, state, transactions, now)
            IN /\ r.result.kind = "response"
               /\ r.result.status = 400
               /\ r.result.error = "invalid_state"
               /\ r.transactions = transactions)
  /\ [][(/\ last'.op = "callback"
          /\ last'.kind = "response"
          /\ last'.status = 400
          /\ last'.error = "invalid_state") =>
          /\ transactions' = transactions
          /\ tokens' = tokens
          /\ disk' = disk
          /\ pending' = pending
          /\ nextId' = nextId]_vars

C17_Witness ==
  /\ LastIs("callback", "response")
  /\ last.status = 400
  /\ last.error = "invalid_state"
  /\ transactions # EmptyMap
  /\ tokens # EmptyMap

(* C18: handleCallback carrying a code and the id of a stored transaction
   whose expiresAt has passed answers 400 transaction_expired, removes that
   transaction and no other, makes no upstream request and stores no token;
   the same callback repeated then answers invalid_state. *)
C18_ExpiredTransactionRemoved ==
  /\ [](\A code \in UpstreamCodes \ {Missing}, state \in DOMAIN transactions :
          transactions[state].expiresAt < now =>
            LET r == CallbackStartOp(code, state, transactions, now)
                again == CallbackStartOp(code, state, r.transactions, now)
            IN /\ r.result.kind = "response"
               /\ r.result.status = 400
               /\ r.result.error = "transaction_expired"
               /\ DOMAIN r.transactions = DOMAIN transactions \ {state}
               /\ \A k \in DOMAIN r.transactions : r.transactions[k] = transactions[k]
               /\ again.result.kind = "response"
               /\ again.result.status = 400
               /\ again.result.error = "invalid_state"
               /\ again.transactions = r.transactions)
  /\ [][(/\ last'.op = "callback"
          /\ last'.kind = "response"
          /\ last'.status = 400
          /\ last'.error = "transaction_expired"
          /\ now' = now) =>
          /\ \E state \in DOMAIN transactions :
               /\ transactions[state].expiresAt < now
               /\ DOMAIN transactions' = DOMAIN transactions \ {state}
               /\ \A k \in DOMAIN transactions' : transactions'[k] = transactions[k]
          /\ tokens' = tokens
          /\ disk' = disk
          /\ pending' = pending
          /\ nextId' = nextId]_vars

C18_Witness ==
  /\ LastIs("callback", "response")
  /\ last.status = 400
  /\ last.error = "transaction_expired"
  /\ transactions # EmptyMap
  /\ \A k \in DOMAIN transactions : ~(transactions[k].expiresAt < now)

(* C19: when the upstream token endpoint answers with a non-success status,
   handleCallback answers 400 token_exchange_failed with the upstream body as
   details; the transaction stays in the transaction store, and the token
   store and the token file are unchanged: no token stored, no save. *)
C19_UpstreamFailureKeepsTransaction ==
  /\ [](\A h \in BagToSet(pending), body \in UpstreamErrorBodies :
          LET r == CallbackResumeOp(h, [kind |-> "error", body |-> body],
                                    transactions, tokens, nextId, now)
          IN /\ r.result.kind = "response"
             /\ r.result.status = 400
             /\ r.result.error = "token_exchange_failed"
             /\ r.result.details = body
             /\ r.transactions = transactions
             /\ r.tokens = tokens
             /\ r.writes = 0
             /\ r.nextId = nextId)
  /\ [][(/\ last'.op = "callback"
          /\ last'.kind = "response"
          /\ last'.status = 400
          /\ last'.error = "token_exchange_failed") =>
          /\ last'.details \in UpstreamErrorBodies
          /\ transactions' = transactions
          /\ tokens' = tokens
          /\ disk' = disk
          /\ nextId' = nextId]_vars

C19_Witness ==
  /\ LastIs("callback", "response")
  /\ last.status = 400
  /\ last.error = "token_exchange_failed"
  /\ transactions # EmptyMap
  /\ DOMAIN transactions = GeneratedIds
  /\ pending = EmptyBag

(* C20: a handleCallback that succeeds adds exactly one key, the proxy code
   it sends to the client, to the token store; the record under it holds the
   upstream access_token and refresh_token and expires expires_in seconds
   from now (3600 seconds when the upstream body has no expires_in); the
   token store is saved; the transaction named by state is removed, and every
   other transaction and token is unchanged. *)
C20_CallbackMintsOneCode ==
  [][\A h \in BagToSet(pending), resp \in UpstreamResponses :
       (resp.kind = "ok" /\ CallbackResume(h, resp, "ok") /\ last'.kind = "response") =>
         LET code == last'.location.code
             seconds == IF "expires_in" \in DOMAIN resp THEN resp.expires_in ELSE 3600
         IN /\ last'.status = 302
            /\ code \notin GeneratedIds
            /\ DOMAIN tokens' \ DOMAIN tokens = {code}
            /\ \A k \in DOMAIN tokens : Has(tokens', k) /\ tokens'[k] = tokens[k]
            /\ tokens'[code].accessToken = resp.access_token
            /\ tokens'[code].refreshToken = resp.refresh_token
            /\ tokens'[code].expiresAt = now + seconds * 1000
            /\ disk' = JsonFile(ToStore(tokens'))
            /\ DOMAIN transactions' = DOMAIN transactions \ {h.state}
            /\ \A k \in DOMAIN transactions' : transactions'[k] = transactions[k]]_vars

(* C21: the redirect of a successful handleCallback goes to the redirect_uri
   the authorize call recorded in the transaction, carries the proxy code
   minted by this callback, and carries as state the state that authorize
   call was given, or the one it generated when it was given none; the state
   is never the transaction id.  Three steps make the chain: authorize
   records its parameters, a stored transaction is never modified, and the
   callback builds the redirect from the transaction it read under state. *)
C21_ClientRedirect ==
  /\ [](\A h \in BagToSet(pending) :
          h.transaction.codeVerifier = GenerateVerifier(h.state))
  /\ [][/\ \A k \in DOMAIN transactions \cap DOMAIN transactions' :
             transactions'[k] = transactions[k]
        /\ \A p \in AuthorizeParams :
             (last'.op = "authorize" /\ last'.status = 302 /\ Authorize(p)) =>
               LET tx == transactions'[last'.location.state]
               IN /\ tx.clientCallbackUrl = p.redirect_uri
                  /\ tx.clientState # last'.location.state
                  /\ IF p.state # Missing
                       THEN tx.clientState = p.state
                       ELSE tx.clientState \notin GeneratedIds \cup DOMAIN transactions'
        /\ \A h \in BagToSet(pending) :
             ( /\ last'.op = "callback"
               /\ last'.kind = "response"
               /\ last'.status = 302
               /\ pending' = pending (-) SetToBag({h}) ) =>
               /\ last'.location.url = h.transaction.clientCallbackUrl
               /\ last'.location.state = h.transaction.clientState
               /\ last'.location.state # h.state
               /\ last'.location.code # h.state
               /\ last'.location.code \notin GeneratedIds
               /\ DOMAIN tokens' \ DOMAIN tokens = {last'.location.code}]_vars

C21_Witness ==
  /\ LastIs("callback", "response")
  /\ last.status = 302
  /\ last.location.url \in RedirectUris
  /\ last.location.state \in GeneratedIds
  /\ last.location.state \notin DOMAIN codeTx
  /\ Has(tokens, last.location.code)

(* C22: one pass of the sweeper removes every transaction and every token
   record whose expiresAt has passed at the time of the pass, and nothing
   else: every other entry stays in its store with the same contents. *)
C22_SweepRemovesExpiredOnly ==
  [][(last'.op = "sweep" /\ now' = now /\ cleanupInterval) =>
       /\ DOMAIN transactions' =
            {k \in DOMAIN transactions : ~(transactions[k].expiresAt < now)}
       /\ \A k \in DOMAIN transactions' : transactions'[k] = transactions[k]
       /\ DOMAIN tokens' = {k \in DOMAIN tokens : ~(tokens[k].expiresAt < now)}
       /\ \A k \in DOMAIN tokens' : tokens'[k] = tokens[k]]_vars

C22_Witness ==
  /\ LastIs("sweep", "return")
  /\ transactions # EmptyMap
  /\ \E k \in GeneratedIds \ DOMAIN transactions :
       /\ GenerateVerifier(k) \notin {transactions[j].codeVerifier : j \in DOMAIN transactions}
       /\ k \notin DOMAIN codeTx
       /\ \A j \in DOMAIN transactions : transactions[j].clientState # k
  /\ doneTx = {}
  /\ codeTx = EmptyMap

(* C23: a pass of the sweeper writes the token file exactly once when it
   removed at least one token record, and does not write it otherwise: not
   when it removed only transactions, not when it removed nothing. *)
C23_SweepWritesIffTokenRemoved ==
  [][(last'.op = "sweep" /\ now' = now /\ cleanupInterval) =>
       IF \E k \in DOMAIN tokens : tokens[k].expiresAt < now
         THEN /\ last'.writes = 1
              /\ disk' = JsonFile(ToStore(tokens'))
         ELSE /\ last'.writes = 0
              /\ disk' = disk]_vars

C23_Witness ==
  /\ LastIs("sweep", "return")
  /\ last.writes = 1
  /\ disk = JsonFile(ToStore(tokens))
  /\ \E c \in DOMAIN codeTx : ~Has(tokens, c) /\ ExchangesOf(c) = {}

(* C24: saving a token store and loading the file into a new proxy gives the
   keys whose expiresAt is after the time of the load, each with the
   accessToken, refreshToken and expiresAt it had: every key when all are
   unexpired at the load, the unexpired ones when some have expired. *)
C24_PersistenceRoundTrip ==
  /\ [](\A t \in {now} \cup {now + d : d \in Deltas}
                    \cup {tokens[k].expiresAt : k \in DOMAIN tokens} :
          LET file == SaveTokensToDisk(tokens, disk, "ok")
              loaded == LoadTokensFromDisk(file, t)
          IN /\ DOMAIN loaded = {k \in DOMAIN tokens : tokens[k].expiresAt > t}
             /\ \A k \in DOMAIN loaded :
                  /\ loaded[k].accessToken = tokens[k].accessToken
                  /\ loaded[k].refreshToken = tokens[k].refreshToken
                  /\ loaded[k].expiresAt = tokens[k].expiresAt
             /\ (\A k \in DOMAIN tokens : tokens[k].expiresAt > t)
                  => DOMAIN loaded = DOMAIN tokens)
  /\ [][(last.op = "destroy" /\ last'.op = "restart") =>
          /\ DOMAIN tokens' = {k \in DOMAIN tokens : tokens[k].expiresAt > now}
          /\ \A k \in DOMAIN tokens' :
               /\ tokens'[k].accessToken = tokens[k].accessToken
               /\ tokens'[k].refreshToken = tokens[k].refreshToken
               /\ tokens'[k].expiresAt = tokens[k].expiresAt]_vars

C24_Witness ==
  /\ last.op = "restart"
  /\ disk.kind = "json"
  /\ Cardinality(DOMAIN tokens) = 1
  /\ Cardinality(DOMAIN disk.data) = 2
  /\ \E k \in DOMAIN tokens :
       tokens[k].refreshToken # Missing /\ tokens[k].expiresAt > now

(* the token file holds exactly the in-memory token store *)
SnapshotEqualsStore(file, tk) ==
  /\ file.kind = "json"
  /\ DOMAIN file.data = DOMAIN tk
  /\ \A k \in DOMAIN tk :
       /\ file.data[k].accessToken = tk[k].accessToken
       /\ ("refreshToken" \in DOMAIN file.data[k]) = (tk[k].refreshToken # Missing)
       /\ tk[k].refreshToken # Missing => file.data[k].refreshToken = tk[k].refreshToken
       /\ file.data[k].expiresAt[2] = tk[k].expiresAt

(* C25: after a handleCallback that minted a code, an exchange that rotated a
   key, a sweeper pass that removed a token, a validation that removed an
   expired token, and destroy, the token file holds exactly the in-memory
   token store (same keys, same records) whenever the write did not fail. *)
C25_SnapshotEqualsStoreAfterSave ==
  [][( \/ /\ last'.op = "callback" /\ last'.kind = "response" /\ last'.status = 302
          /\ \E h \in BagToSet(pending), resp \in UpstreamResponses :
               CallbackResume(h, resp, "ok")
       \/ /\ last'.op = "exchange" /\ last'.kind = "return"
          /\ \E code \in DOMAIN tokens : ExchangeAuthorizationCode(code, "ok")
       \/ /\ last'.op = "sweep" /\ DOMAIN tokens' # DOMAIN tokens
          /\ Sweep("ok")
       \/ /\ last'.op = "loadUpstreamTokens" /\ DOMAIN tokens' # DOMAIN tokens
          /\ \E k \in DOMAIN tokens : LoadUpstreamTokens(k, "ok")
       \/ /\ last'.op = "destroy"
          /\ Destroy("ok") )
       => SnapshotEqualsStore(disk', tokens')]_vars

C25_Witness ==
  /\ LastIs("exchange", "return")
  /\ tokens # EmptyMap
  /\ SnapshotEqualsStore(disk, tokens)
  /\ \E a \in DOMAIN tokenOf : Has(tokens, a)

(* C26: a save that fails is not fatal: the operation that called it
   (callback mint, token exchange, validation, sweeper pass, destroy) ends
   with the result and the in-memory token store it has when the save
   succeeds, and the token file is left as it was before the operation. *)
C26_FailedSaveNonFatal ==
  [][\A f \in FaultOutcomes \ {"ok"} :
       /\ \A h \in BagToSet(pending), resp \in UpstreamResponses :
            (last'.op = "callback" /\ CallbackResume(h, resp, f)) =>
              LET r == CallbackResumeOp(h, resp, transactions, tokens, nextId, now)
              IN /\ last' = r.result
                 /\ tokens' = r.tokens
                 /\ transactions' = r.transactions
                 /\ disk' = disk
       /\ \A code \in DOMAIN tokens :
            (last'.op = "exchange" /\ ExchangeAuthorizationCode(code, f)) =>
              LET r == ExchangeOp(code, tokens, nextId, now)
              IN /\ last' = r.result
                 /\ tokens' = r.tokens
                 /\ disk' = disk
       /\ \A k \in DOMAIN tokens :
            (last'.op = "loadUpstreamTokens" /\ LoadUpstreamTokens(k, f)) =>
              LET r == LoadUpstreamTokensOp(k, tokens, now)
              IN /\ last'.ret = r.ret
                 /\ tokens' = r.tokens
                 /\ disk' = disk
       /\ (last'.op = "sweep" /\ Sweep(f)) =>
            LET r == SweepOp(transactions, tokens, now)
            IN /\ tokens' = r.tokens
               /\ transactions' = r.transactions
               /\ disk' = disk
       /\ (last'.op = "destroy" /\ Destroy(f)) =>
            /\ tokens' = tokens
            /\ cleanupInterval' = FALSE
            /\ disk' = disk]_vars

(* C27: when the process stops, at any point, and a new proxy loads the token
   file, every access token that a token exchange had returned to a client
   and that has not expired is in the reloaded token store with the record
   it had. *)
C27_ReturnedTokensSurviveRestart ==
  [][last'.op = "restart" =>
       \A a \in DOMAIN tokenOf :
         (Has(tokens, a) /\ tokens[a].expiresAt > now) =>
           /\ Has(tokens', a)
           /\ tokens'[a] = tokens[a]]_vars

(* Registration followed by authorization.  A client presents either the   *)
(* client_id its registration returned or one that no registration issued. *)
UnregisteredClientIds == {901}

RegisterAuthorizeParams(client_id) ==
  [client_id : {client_id}, redirect_uri : RedirectUris,
   response_type : {"code"}, state : ClientStates, scope : ScopeParams]

NextRegister ==
  \/ Tick
  \/ \E request \in RegistrationRequests : RegisterClient(request)
  \/ \E cid \in UnregisteredClientIds :
       \E p \in RegisterAuthorizeParams(cid) : Authorize(p)
  \/ /\ last.op = "register"
     /\ \E p \in RegisterAuthorizeParams(last.client_id) : Authorize(p)
  \/ \E code \in UpstreamCodes \ {Missing}, state \in DOMAIN transactions :
       CallbackStart(code, state)
  \/ \E h \in BagToSet(pending), resp \in FaultResponses :
       CallbackResume(h, resp, "ok")
  \/ \E code \in DOMAIN tokens : ExchangeAuthorizationCode(code, "ok")

SpecRegister == Init /\ [][NextRegister]_vars

(* C29: registerClient succeeds for every request and returns a freshly
   minted client_id with the supplied client_name and redirect_uris
   unchanged; it leaves the Transaction Store, the Token Store, the durable
   file and the configured upstream client id as they were; an Authorize
   succeeds whether or not its client_id was ever registered. *)
C29_RegisterClientAcknowledges ==
  /\ [](\A request \in RegistrationRequests :
          LET r == RegisterClientOp(request, nextId).result
          IN /\ r.kind = "return"
             /\ r.client_id = nextId
             /\ r.client_id \notin GeneratedIds
             /\ DOMAIN r = DOMAIN request \cup {"op", "kind", "client_id"}
             /\ \A f \in DOMAIN request : r[f] = request[f])
  /\ [](\A cid \in GeneratedIds \cup UnregisteredClientIds :
        \A p \in RegisterAuthorizeParams(cid) :
          LET r == AuthorizeOp(p, transactions, nextId, now).result
          IN /\ r.kind = "response"
             /\ r.status = 302
             /\ r.location.client_id = ConfigClientId)
  /\ [][(last'.op = "register" /\ last' # last) =>
          /\ last'.kind = "return"
          /\ nextId' = nextId + 1
          /\ UNCHANGED <<transactions, tokens, disk>>]_vars

(* an authorization has succeeded under a client_id that an earlier
   registration returned *)
C29_Witness ==
  /\ LastIs("authorize", "response")
  /\ last.status = 302
  /\ transactions[last.location.state].clientId \notin UnregisteredClientIds
  /\ transactions[last.location.state].clientId \in GeneratedIds

(* One authorization carried to the end: the upstream answers every token  *)
(* request with {access_token: 101, expires_in: 120}.                      *)
EndToEndResponses ==
  {r \in UpstreamResponses :
     r.kind = "ok" /\ "expires_in" \in DOMAIN r /\ r.expires_in = 120}

NextEndToEnd ==
  \/ Tick
  \/ \E p \in AuthorizeParams : p.response_type = "code" /\ Authorize(p)
  \/ \E code \in UpstreamCodes \ {Missing}, state \in DOMAIN transactions :
       CallbackStart(code, state)
  \/ \E h \in BagToSet(pending), resp \in EndToEndResponses :
       CallbackResume(h, resp, "ok")
  \/ \E code \in KeyInputs : ExchangeAuthorizationCode(code, "ok")
  \/ Sweep("ok")

SpecEndToEnd == Init /\ [][NextEndToEnd]_vars

(* C30 as stated: after Authorize and a Callback whose upstream response is
   {access_token, expires_in: 120}, the exchange of the proxy code returns
   token_type "Bearer" and expires_in 120, and a second exchange of the same
   code yields invalid_grant. *)
C30_EndToEndAsStated ==
  /\ LastIs("exchange", "return") =>
       /\ last.response.token_type = "Bearer"
       /\ last.response.expires_in = 120
  /\ \A c \in DOMAIN tokenOf :
       ExchangeOp(tokenOf[c], tokens, nextId, now).result = ExchangeThrow("invalid_grant")

(* C30, amended: the callback stores the record with expiresAt 120 s after
   the mint; the exchange of a stored proxy code returns token_type "Bearer"
   and as expires_in the whole seconds left until expiresAt at the time of
   the exchange (120 when no time has passed since the mint), or 3600 when
   none is left; a second exchange of the same code yields invalid_grant. *)
C30_EndToEnd ==
  /\ [](\A c \in DOMAIN tokens :
          LET r == ExchangeOp(c, tokens, nextId, now)
              left == (tokens[c].expiresAt - now) \div 1000
          IN /\ r.result.kind = "return"
             /\ r.result.response.token_type = "Bearer"
             /\ r.result.response.access_token = nextId
             /\ r.result.response.expires_in = IF left > 0 THEN left ELSE 3600
             /\ ExchangeOp(c, r.tokens, r.nextId, now).result
                  = [op |-> "exchange", kind |-> "throw", error |-> "invalid_grant"])
  /\ [][(last'.op = "callback" /\ last' # last /\ last'.kind = "response"
           /\ last'.status = 302) =>
          LET c == last'.location.code
          IN /\ Has(tokens', c)
             /\ tokens'[c].expiresAt = now' + 120 * 1000
             /\ ExchangeOp(c, tokens', nextId', now').result.response.expires_in = 120]_vars
  /\ [][(last'.op = "exchange" /\ last' # last /\ last'.kind = "return") =>
          \E c \in DOMAIN tokens :
            LET left == (tokens[c].expiresAt - now) \div 1000
            IN /\ ~Has(tokens', c)
               /\ left <= 120
               /\ last'.response.token_type = "Bearer"
               /\ last'.response.expires_in = IF left > 0 THEN left ELSE 3600]_vars

(* a proxy code was exchanged one second after its mint: 119 seconds are left *)
C30_Witness ==
  /\ LastIs("exchange", "return")
  /\ last.response.expires_in = 119
  /\ ~Has(tokens, tokenOf[last.response.access_token])

(* every proxy code and access token key ever issued, and the upstream tokens *)
FullTokenValues ==
  DOMAIN tokens \cup DOMAIN codeTx \cup DOMAIN tokenOf \cup UpstreamSecrets

(* C28: no log line of any operation holds a full token value: a proxy code,
   an access token key or an upstream token; keys are logged as prefixes. *)
C28_NoFullTokenInLogs ==
  /\ LoggedInFull(last) \cap FullTokenValues = {}
  /\ \A code \in KeyInputs :
       ExchangeLoggedInFull(code, tokens) \cap FullTokenValues = {}


(* A callback retried after a failed upstream exchange.  The upstream hands  *)
(* the user agent a new code for the retry.                                 *)
RetryCodes == {502}

FailedExchange(result) ==
  /\ result.op = "callback"
  /\ result.kind = "response"
  /\ result.status = 400
  /\ result.error = "token_exchange_failed"

NextRetry ==
  \/ Tick
  \/ \E p \in FaultAuthorizeParams : Authorize(p)
  \/ \E code \in UpstreamCodes \ {Missing}, state \in DOMAIN transactions :
       CallbackStart(code, state)
  \/ /\ FailedExchange(last)
     /\ \E code \in RetryCodes, state \in DOMAIN transactions :
          CallbackStart(code, state)
  \/ \E h \in BagToSet(pending), resp \in UpstreamResponses :
       CallbackResume(h, resp, "ok")
  \/ \E code \in DOMAIN tokens : ExchangeAuthorizationCode(code, "ok")
  \/ Sweep("ok")

SpecRetry == Init /\ [][NextRetry]_vars

(* C31: after a callback ended in token_exchange_failed, a callback retried
   with the same state while the transaction is stored and unexpired is not
   answered invalid_state: it sends a new upstream request with the same
   code verifier, and if the upstream then succeeds it mints a proxy code,
   removes the transaction and redirects to the client. *)
C31_RetryAfterFailedExchange ==
  /\ [](\A h \in BagToSet(pending) :
        \A e \in {r \in UpstreamResponses : r.kind = "error"} :
          LET failed == CallbackResumeOp(h, e, transactions, tokens, nextId, now)
          IN /\ failed.result.error = "token_exchange_failed"
             /\ failed.transactions = transactions
             /\ failed.tokens = tokens
             /\ failed.nextId = nextId
             /\ \A code \in (UpstreamCodes \ {Missing}) \cup RetryCodes :
                 \A t2 \in {now} \cup {now + d : d \in Deltas} :
                   (Has(transactions, h.state) /\ ~(transactions[h.state].expiresAt < t2)) =>
                     LET retry == CallbackStartOp(code, h.state, transactions, t2)
                     IN /\ retry.result.kind = "await"
                        /\ retry.result.request.code = code
                        /\ retry.result.request.code_verifier
                             = transactions[h.state].codeVerifier
                        /\ retry.transactions = transactions
                        /\ \A ok \in {r \in UpstreamResponses : r.kind = "ok"} :
                             LET done == CallbackResumeOp(
                                           [state |-> h.state, code |-> code,
                                            transaction |-> transactions[h.state]],
                                           ok, transactions, tokens, nextId, t2)
                             IN /\ done.result.kind = "response"
                                /\ done.result.status = 302
                                /\ done.result.location.code = nextId
                                /\ DOMAIN done.tokens = DOMAIN tokens \cup {nextId}
                                /\ ~Has(tokens, nextId)
                                /\ DOMAIN done.transactions
                                     = DOMAIN transactions \ {h.state})
  /\ [][(FailedExchange(last') /\ last' # last) =>
          /\ transactions' = transactions
          /\ tokens' = tokens]_vars
  /\ [][(FailedExchange(last) /\ last'.op = "callback" /\ last' # last
           /\ \E state \in DOMAIN transactions :
                /\ ~(transactions[state].expiresAt < now)
                /\ \E code \in RetryCodes : CallbackStart(code, state)) =>
          /\ last'.kind = "await"
          /\ \E state \in DOMAIN transactions :
               last'.request.code_verifier = transactions[state].codeVerifier]_vars

(* a callback retried after a failed exchange has sent its upstream request,
   with the verifier of the transaction, and waits for the answer *)
C31_Witness ==
  /\ LastIs("callback", "await")
  /\ last.request.code \in RetryCodes
  /\ \E h \in BagToSet(pending) :
       /\ h.code \in RetryCodes
       /\ Has(transactions, h.state)
       /\ last.request.code_verifier = transactions[h.state].codeVerifier

(* C32: loadUpstreamTokens returns a record only for keys minted by
   exchangeAuthorizationCode; for a proxy code minted by handleCallback and
   not yet exchanged it returns null. *)
C32_ValidationAcceptsOnlyAccessTokens ==
  \A k \in KeyInputs :
    LET r == LoadUpstreamTokensOp(k, tokens, now)
    IN /\ r.ret.found => k \in DOMAIN tokenOf
       /\ (k \in DOMAIN codeTx /\ Has(tokens, k)) => ~r.ret.found

(* the proxy code a key descends from: exchangeAuthorizationCode rotates any
   key of the store, a proxy code or an access token issued earlier *)
RECURSIVE GrantOf(_)
GrantOf(k) == IF k \in DOMAIN tokenOf THEN GrantOf(tokenOf[k]) ELSE k

(* C33: the record of one successful upstream exchange is reachable through
   at most one key of the token store: its proxy code or the one access
   token that replaced it, never both and never two access tokens. *)
C33_OneKeyPerGrant ==
  /\ \A c \in DOMAIN codeTx :
       Cardinality({k \in DOMAIN tokens : GrantOf(k) = c}) <= 1
  /\ \A k \in DOMAIN tokens : GrantOf(k) \in DOMAIN codeTx

(* the access token just issued is the only key of its grant in the store *)
C33_Witness ==
  /\ LastIs("exchange", "return")
  /\ tokenOf[last.response.access_token] \in DOMAIN codeTx
  /\ {k \in DOMAIN tokens : GrantOf(k) = tokenOf[last.response.access_token]}
       = {last.response.access_token}

(* Authorize stores params.redirect_uri as given: a value that new URL()   *)
(* rejects is accepted as well.                                            *)
MalformedRedirectUris == {"not a url"}

MalformedAuthorizeParams ==
  [client_id : ClientIds, redirect_uri : RedirectUris \cup MalformedRedirectUris,
   response_type : {"code"}, state : ClientStates \ {Missing}, scope : ScopeParams]

NextMalformed ==
  \/ Tick
  \/ \E p \in MalformedAuthorizeParams : Authorize(p)
  \/ \E code \in UpstreamCodes \ {Missing}, state \in DOMAIN transactions :
       CallbackStart(code, state)
  \/ \E h \in BagToSet(pending), resp \in UpstreamResponses :
       CallbackResume(h, resp, "ok")
  \/ \E code \in DOMAIN tokens : ExchangeAuthorizationCode(code, "ok")
  \/ Sweep("ok")

SpecMalformed == Init /\ [][NextMalformed]_vars

(* C34: handleCallback leaves no orphaned grant: whenever it has stored a
   proxy code in the token store it has also removed the transaction and
   answers with a redirect that delivers that code to the client, for every
   redirect_uri that authorize accepted. *)
C34_NoOrphanedGrant ==
  [][(last'.op = "callback" /\ DOMAIN tokens' # DOMAIN tokens) =>
       /\ last'.kind = "response"
       /\ last'.status = 302
       /\ DOMAIN tokens' \ DOMAIN tokens = {last'.location.code}
       /\ \A c \in DOMAIN codeTx' \ DOMAIN codeTx : ~Has(transactions', codeTx'[c])]_vars

(* C35: all expiry tests agree on every record at every instant, the
   boundary expiresAt = now included: loadUpstreamTokens holds a token valid
   exactly when getFirstValidToken would, exactly when loadTokensFromDisk
   would keep it and exactly when the sweeper would not remove it;
   handleCallback holds a transaction expired exactly when the sweeper would
   remove it. *)
C35_ExpiryTestsAgree ==
  /\ \A k \in DOMAIN tokens :
       LET valid == LoadUpstreamTokensOp(k, tokens, now).ret.found
       IN /\ valid = GetFirstValidToken([j \in {k} |-> tokens[k]], now).found
          /\ valid = Has(LoadTokensFromDisk(JsonFile(ToStore(tokens)), now), k)
          /\ valid = Has(SweepOp(transactions, tokens, now).tokens, k)
  /\ \A s \in DOMAIN transactions, code \in UpstreamCodes \ {Missing} :
       (CallbackStartOp(code, s, transactions, now).result.kind # "await")
         = ~Has(SweepOp(transactions, tokens, now).transactions, s)

(* A proxy constructed on a token file that holds one record of an earlier  *)
(* process: the constructor has loaded it.                                  *)
LoadedKeys == 1..1

InitLoaded ==
  /\ now = 0
  /\ ticks = 0
  /\ nextId = Cardinality(LoadedKeys) + 1
  /\ transactions = EmptyMap
  /\ \E st \in [LoadedKeys -> RoundTripRecords] :
       /\ disk = SaveTokensToDisk(st, NoFile, "ok")
       /\ tokens = LoadTokensFromDisk(disk, now)
  /\ cleanupInterval = TRUE
  /\ pending = EmptyBag
  /\ last = Idle
  /\ codeTx = EmptyMap
  /\ tokenOf = EmptyMap
  /\ doneTx = {}

NextLoaded ==
  \/ Tick
  \/ \E p \in FaultAuthorizeParams : Authorize(p)
  \/ \E code \in UpstreamCodes \ {Missing}, state \in DOMAIN transactions :
       CallbackStart(code, state)
  \/ \E h \in BagToSet(pending), resp \in UpstreamResponses :
       CallbackResume(h, resp, "ok")
  \/ \E code \in KeyInputs : ExchangeAuthorizationCode(code, "ok")
  \/ \E proxyToken \in KeyInputs : LoadUpstreamTokens(proxyToken, "ok")
  \/ Sweep("ok")

SpecLoaded == InitLoaded /\ [][NextLoaded]_vars

(* C36: an unexpired transaction is removed only by a successful callback
   carrying its id, and an unexpired token key only by a token exchange of
   that key; hence an access token returned by the token exchange is
   accepted by loadUpstreamTokens at every later instant before its
   expiresAt, whatever operations and sweeper passes interleave. *)
C36_RemovedOnlyByConsumption ==
  /\ [][\A s \in DOMAIN transactions \ DOMAIN transactions' :
          ~(transactions[s].expiresAt < now') =>
            /\ last'.op = "callback"
            /\ last'.kind = "response"
            /\ last'.status = 302
            /\ codeTx'[last'.location.code] = s]_vars
  /\ [][\A k \in DOMAIN tokens \ DOMAIN tokens' :
          ~(tokens[k].expiresAt < now') =>
            /\ last'.op = "exchange"
            /\ last'.kind = "return"
            /\ tokenOf'[last'.response.access_token] = k]_vars
  /\ [][\A a \in DOMAIN tokenOf \cap DOMAIN tokens :
          now' < tokens[a].expiresAt =>
            LoadUpstreamTokensOp(a, tokens', now').ret
              = [found |-> TRUE, data |-> tokens[a]]]_vars

(* Time keeps passing and the cleanup interval keeps firing.  The clock is  *)
(* followed for as long as some entry has not expired yet; with the ids     *)
(* bounded, finitely many entries are ever created.                         *)
LiveDeltas == {600001, 3600001}

SomethingUnexpired ==
  \/ \E s \in DOMAIN transactions : ~TransactionExpired(transactions[s], now)
  \/ \E k \in DOMAIN tokens : ~TokenExpired(tokens[k], now)

Advance ==
  /\ SomethingUnexpired
  /\ \E d \in LiveDeltas : now' = now + d
  /\ UNCHANGED <<ticks, nextId, transactions, tokens, disk, cleanupInterval,
                 pending, last, codeTx, tokenOf, doneTx>>

LiveResponses == {r \in UpstreamResponses : r.kind = "error"} \cup EndToEndResponses

NextLive ==
  \/ Advance
  \/ \E p \in FaultAuthorizeParams : Authorize(p)
  \/ \E code \in UpstreamCodes \ {Missing}, state \in DOMAIN transactions :
       CallbackStart(code, state)
  \/ \E h \in BagToSet(pending), resp \in LiveResponses :
       CallbackResume(h, resp, "ok")
  \/ \E code \in DOMAIN tokens : ExchangeAuthorizationCode(code, "ok")
  \/ Sweep("ok")
  \/ Destroy("ok")

SpecLive ==
  /\ Init
  /\ [][NextLive]_vars
  /\ WF_vars(Advance)
  /\ WF_vars(Sweep("ok"))

AllIds == 1..(MaxIds + 1)

(* C37: with a fair sweeper and time passing, every transaction and every
   token key is eventually removed from its store, for as long as the
   cleanup interval has not been cleared: also a transaction whose callback
   never arrives or ended in token_exchange_failed, and a proxy code that is
   never exchanged. *)
C37_EverythingEventuallyRemoved ==
  \A id \in AllIds :
    /\ Has(transactions, id) ~> (~Has(transactions, id) \/ ~cleanupInterval)
    /\ Has(tokens, id) ~> (~Has(tokens, id) \/ ~cleanupInterval)

(* the sweeper has emptied both stores: a proxy code that was never
   exchanged and a transaction that no callback completed are gone *)
C37_Witness ==
  /\ LastIs("sweep", "return")
  /\ cleanupInterval
  /\ DOMAIN transactions = {}
  /\ DOMAIN tokens = {}
  /\ DOMAIN codeTx # {}
  /\ DOMAIN tokenOf = {}
  /\ \E s \in GeneratedIds : s \notin DOMAIN codeTx /\ s \notin doneTx

(* Requests that differ in what the handlers do not read.  authorize is     *)
(* given a client_id and the client's own code_challenge; the token request *)
(* a client_id, a redirect_uri, a code_verifier and a client_secret.        *)
ChallengeAuthorizeParams ==
  [client_id : {"abc", "xyz"}, redirect_uri : RedirectUris,
   response_type : {"code"}, state : ClientStates \ {Missing}, scope : ScopeParams,
   code_challenge : {S256(GenerateVerifier(0)), S256(GenerateVerifier(1))}]

(* token requests as the client that started the flow would send them, and
   as a stranger would *)
PresentedParams ==
  {x \in ExchangeParams :
     \/ /\ x.client_id = "abc"
        /\ x.redirect_uri = "https://client/cb"
        /\ x.code_verifier = GenerateVerifier(1)
        /\ x.client_secret = ""
     \/ /\ x.client_id = "other"
        /\ x.redirect_uri = "https://elsewhere/cb"
        /\ x.code_verifier = GenerateVerifier(0)
        /\ x.client_secret = "s3cret"}

NextParams ==
  \/ \E p \in ChallengeAuthorizeParams : Authorize(p)
  \/ \E code \in UpstreamCodes \ {Missing}, state \in DOMAIN transactions :
       CallbackStart(code, state)
  \/ \E h \in BagToSet(pending), resp \in EndToEndResponses :
       CallbackResume(h, resp, "ok")
  \/ \E params \in PresentedParams :
       /\ params.code \in DOMAIN tokens \cup {Bogus}
       /\ ExchangeAuthorizationCodeParams(params, "ok")

SpecParams == Init /\ [][NextParams]_vars

(* one flow from the current state: authorize, callback with an upstream
   200, token request for the proxy code the callback minted *)
FlowOutcome(pa, px, resp) ==
  LET a == AuthorizeOp(pa, transactions, nextId, now)
      h == [state |-> nextId, code |-> 501, transaction |-> a.transactions[nextId]]
      c == CallbackResumeOp(h, resp, a.transactions, tokens, a.nextId, now)
      x == ExchangeParamsOp([px EXCEPT !.code = a.nextId], c.tokens, c.nextId, now)
  IN [result |-> x.result, tokens |-> x.tokens, writes |-> x.writes]

(* C38: the outcome of exchangeAuthorizationCode and its effect on the token
   store depend only on the code and the token store: two runs that differ
   only in the client_id, redirect_uri, code_verifier or client_secret of
   the token request, or in the client_id or code_challenge given to the
   authorize that started the flow, end in the same success or error and
   the same store. *)
C38_ExchangeDependsOnCodeAndStoreOnly ==
  /\ \A code \in KeyInputs :
       \A p \in {x \in ExchangeParams : x.code = code} :
         ExchangeParamsOp(p, tokens, nextId, now)
           = ExchangeParamsOp([code |-> code, client_id |-> "abc",
                               redirect_uri |-> "https://client/cb",
                               code_verifier |-> GenerateVerifier(1),
                               client_secret |-> ""], tokens, nextId, now)
  /\ \A resp \in EndToEndResponses :
       \A pa \in ChallengeAuthorizeParams :
         \A px \in {x \in ExchangeParams : x.code = Missing} :
           FlowOutcome(pa, px, resp)
             = FlowOutcome([pa EXCEPT !.client_id = "abc",
                                      !.code_challenge = S256(GenerateVerifier(0))],
                           [code |-> Missing, client_id |-> "abc",
                            redirect_uri |-> "https://client/cb",
                            code_verifier |-> GenerateVerifier(1),
                            client_secret |-> ""], resp)
  /\ (LastIs("exchange", "return") /\ "presented" \in DOMAIN last) =>
       /\ Has(tokens, last.response.access_token)
       /\ ~Has(tokens, last.presented.code)

(* a token request that named another client, another redirect_uri and a
   verifier that matches no challenge has been answered with an access token *)
C38_Witness ==
  /\ LastIs("exchange", "return")
  /\ "presented" \in DOMAIN last
  /\ last.presented.client_id = "other"
  /\ last.presented.redirect_uri = "https://elsewhere/cb"
  /\ last.presented.code_verifier = GenerateVerifier(0)
  /\ last.presented.client_secret = "s3cret"
  /\ Has(tokens, last.response.access_token)

(* C39: destroy stops the sweeper and saves once: it clears the cleanup
   interval, performs exactly one save of the current token store and leaves
   both stores as they were; after it no sweeper pass runs any more; a
   further destroy saves again and changes nothing else. *)
C39_DestroyStopsSweeperAndSaves ==
  [][/\ (last'.op = "destroy" /\ Destroy("ok")) =>
          /\ ~cleanupInterval'
          /\ last'.kind = "return"
          /\ last'.writes = 1
          /\ disk' = [kind |-> "json", data |-> ToStore(tokens)]
          /\ transactions' = transactions
          /\ tokens' = tokens
          /\ UNCHANGED <<now, nextId, pending>>
     /\ ~cleanupInterval =>
          /\ ~cleanupInterval'
          /\ last'.op = "sweep" => ~Sweep("ok")
          /\ DOMAIN transactions' # DOMAIN transactions => last'.op \in {"authorize", "callback"}
          /\ DOMAIN tokens' # DOMAIN tokens =>
               last'.op \in {"callback", "exchange", "loadUpstreamTokens"}]_vars

(* the proxy was destroyed and an expired token is still in the store and in
   the file: no sweeper pass has removed it *)
C39_Witness ==
  /\ LastIs("destroy", "return")
  /\ ~cleanupInterval
  /\ \E k \in DOMAIN tokens : tokens[k].expiresAt < now
  /\ disk = JsonFile(ToStore(tokens))

====
